---------------------------- MODULE Spec2Model ----------------------------
(***************************************************************************)
(* Model of crates/sui-types/src/sui_serde.rs: the serde_as adapters       *)
(* Readable, HexAccountAddress, SuiBitmap, SuiStructTag, SuiTypeTag,       *)
(* BigInt, SequenceNumber and AsProtocolVersion, and the two error         *)
(* helpers to_custom_error / to_custom_ser_error.                          *)
(*                                                                         *)
(* Every adapter is a pure function from (value, serializer) to a result,  *)
(* or from a deserializer to a result.  A serializer is modelled by what   *)
(* the adapters can observe of it: its is_human_readable() flag and which  *)
(* kind of item its writer rejects.  What an adapter writes is one item of *)
(* the serde data model (a string, a u64 or a byte string).  Each result   *)
(* carries the log of the calls the adapter made on the (de)serializer, so *)
(* that "queries the mode" and "delegates to H" are observable.            *)
(*                                                                         *)
(* Text is a sequence of one-character strings (type tags: a sequence of   *)
(* tokens); error messages are sequences of words.                         *)
(***************************************************************************)
EXTENDS Integers, Sequences, FiniteSets, TLC

VARIABLES
    adapter,    \* the strategy under test: [name, H, R] (H, R only for Readable)
    ser,        \* the serializer / deserializer: [human_readable, rejects]
    value,      \* the in-memory value handed to serialize_as
    encoded,    \* the result of serialize_as
    wire,       \* the item the deserializer reads
    corrupt,    \* [pos, byte]: the byte of the blob that was changed (pos 0: none)
    decoded,    \* the result of deserialize_as
    pc          \* "start" | "supplied" | "encoded" | "failed" | "corrupted" | "decoded"

vars == <<adapter, ser, value, encoded, wire, corrupt, decoded, pc>>

-----------------------------------------------------------------------------
(* Bounds of the model *)

\* width in bits of the model's u64 (the code's is 64; TLC's integers are 32 bits wide)
Bits == 6
\* longest text supplied to the numeric parsers
MaxStrLen == 3
\* AccountAddress::LENGTH, scaled (the build's is 32 bytes)
LENGTH == 2
\* largest number of values in a bitmap
MaxCard == 3
\* deepest nesting of a type tag
MaxDepth == 1

U64_MAX == 2^Bits - 1

-----------------------------------------------------------------------------
(* Generic helpers *)

RECURSIVE SeqsUpTo(_, _)
\* all sequences over S of length at most n
SeqsUpTo(S, n) ==
    IF n = 0 THEN {<<>>}
    ELSE LET shorter == SeqsUpTo(S, n - 1)
         IN  shorter \cup {Append(s, c) : s \in shorter, c \in S}

SeqsOfLen(S, n) == {s \in SeqsUpTo(S, n) : Len(s) = n}

\* the ascending sequence of a finite set of integers
SortedSeq(S) ==
    [j \in 1..Cardinality(S) |-> CHOOSE v \in S : Cardinality({w \in S : w < v}) = j - 1]

RECURSIVE Concat(_)
\* the concatenation of a sequence of sequences
Concat(ss) == IF ss = <<>> THEN <<>> ELSE Head(ss) \o Concat(Tail(ss))

StartsWith(s, p) == Len(s) >= Len(p) /\ SubSeq(s, 1, Len(p)) = p

-----------------------------------------------------------------------------
(* The serde data model: items, values, results *)

NoItem == [kind |-> "none", str |-> <<>>, num |-> 0, bytes |-> <<>>]
StrItem(s) == [kind |-> "str", str |-> s, num |-> 0, bytes |-> <<>>]
U64Item(n) == [kind |-> "u64", str |-> <<>>, num |-> n, bytes |-> <<>>]
BytesItem(b) == [kind |-> "bytes", str |-> <<>>, num |-> 0, bytes |-> b]

NoTag == [tag |-> "none", addr |-> "", module |-> "", name |-> "", args |-> <<>>]

NoValue == [ty |-> "none", n |-> 0, bytes |-> <<>>, containers |-> <<>>, tag |-> NoTag]
U64Value(n) == [NoValue EXCEPT !.ty = "u64", !.n = n]
AddressValue(b) == [NoValue EXCEPT !.ty = "AccountAddress", !.bytes = b]
BitmapValue(cs) == [NoValue EXCEPT !.ty = "RoaringBitmap", !.containers = cs]
TypeTagValue(t) == [NoValue EXCEPT !.ty = "TypeTag", !.tag = t]
StructTagValue(t) == [NoValue EXCEPT !.ty = "StructTag", !.tag = t]

\* Result<S::Ok, S::Error> of a serialize call, with the calls made on the serializer
SerOk(item, calls) == [ok |-> TRUE, item |-> item, err |-> <<>>, calls |-> calls]
SerErr(e, calls) == [ok |-> FALSE, item |-> NoItem, err |-> e, calls |-> calls]

\* Result<T, D::Error> of a deserialize call, with the calls made on the deserializer
DeOk(v, calls) == [ok |-> TRUE, val |-> v, err |-> <<>>, calls |-> calls]
DeErr(e, calls) == [ok |-> FALSE, val |-> NoValue, err |-> e, calls |-> calls]

\* a Result<T, E> of a library call that touches no (de)serializer
Ok(v) == DeOk(v, <<>>)
Err(e) == DeErr(e, <<>>)

-----------------------------------------------------------------------------
(* The serializer and the deserializer, as the adapters see them *)

\* the item kinds a format writer may reject (an internal write failure)
Rejects == {"none", "str", "u64", "bytes"}

Serializers == [human_readable : BOOLEAN, rejects : Rejects]

\* the deserializer that reads item w under the mode of serializer sr
Deserializer(sr, w) == [human_readable |-> sr.human_readable, item |-> w]

WriteFailure(kind) == <<"writer", "rejects", kind>>
InvalidType(got, want) == <<"invalid", "type:", got, "expected", want>>

\* Serializer::serialize_str
serialize_str(sr, s) ==
    IF sr.rejects = "str" THEN SerErr(WriteFailure("str"), <<"serialize_str">>)
    ELSE SerOk(StrItem(s), <<"serialize_str">>)

\* Serializer::serialize_u64
serialize_u64(sr, n) ==
    IF sr.rejects = "u64" THEN SerErr(WriteFailure("u64"), <<"serialize_u64">>)
    ELSE SerOk(U64Item(n), <<"serialize_u64">>)

\* Serializer::serialize_bytes
serialize_bytes(sr, b) ==
    IF sr.rejects = "bytes" THEN SerErr(WriteFailure("bytes"), <<"serialize_bytes">>)
    ELSE SerOk(BytesItem(b), <<"serialize_bytes">>)

\* String::deserialize(deserializer): the text of a string item
deserialize_string(de) ==
    IF de.item.kind = "str"
    THEN [ok |-> TRUE, str |-> de.item.str, err |-> <<>>, calls |-> <<"deserialize_string">>]
    ELSE [ok |-> FALSE, str |-> <<>>, err |-> InvalidType(de.item.kind, "str"),
          calls |-> <<"deserialize_string">>]

\* u64::deserialize(deserializer): the number of a u64 item
deserialize_u64(de) ==
    IF de.item.kind = "u64"
    THEN DeOk(U64Value(de.item.num), <<"deserialize_u64">>)
    ELSE DeErr(InvalidType(de.item.kind, "u64"), <<"deserialize_u64">>)

\* Bytes::deserialize_as(deserializer): the bytes of a byte-string item (the
\* adapters are handed no sequence item; any other kind is a type error)
deserialize_bytes(de) ==
    IF de.item.kind = "bytes"
    THEN [ok |-> TRUE, bytes |-> de.item.bytes, err |-> <<>>, calls |-> <<"deserialize_bytes">>]
    ELSE [ok |-> FALSE, bytes |-> <<>>, err |-> InvalidType(de.item.kind, "bytes"),
          calls |-> <<"deserialize_bytes">>]

-----------------------------------------------------------------------------
(* Error Translator: to_custom_error, to_custom_ser_error *)

\* Error::custom(format!("byte deserialization failed, cause by: {:?}", e));
\* e is given by its {:?} rendering
to_custom_error(e) == <<"byte", "deserialization", "failed,", "cause", "by:">> \o e

\* S::Error::custom(format!("byte serialization failed, cause by: {:?}", e))
to_custom_ser_error(e) == <<"byte", "serialization", "failed,", "cause", "by:">> \o e

-----------------------------------------------------------------------------
(* u64 as text: Display (to_string) and FromStr (parse) *)

DigitChars == <<"0", "1", "2", "3", "4", "5", "6", "7", "8", "9">>

IsDigit(c) == \E i \in 1..10 : DigitChars[i] = c
DigitOf(c) == (CHOOSE i \in 1..10 : DigitChars[i] = c) - 1

RECURSIVE u64_to_string(_)
\* <u64 as Display>::fmt: base 10, no sign, no leading zero
u64_to_string(n) ==
    IF n < 10 THEN <<DigitChars[n + 1]>>
    ELSE u64_to_string(n \div 10) \o <<DigitChars[(n % 10) + 1]>>

\* ParseIntError's Display, by IntErrorKind
ParseIntError(kind) ==
    CASE kind = "Empty" -> <<"cannot", "parse", "integer", "from", "empty", "string">>
      [] kind = "InvalidDigit" -> <<"invalid", "digit", "found", "in", "string">>
      [] kind = "PosOverflow" -> <<"number", "too", "large", "to", "fit", "in", "target", "type">>

RECURSIVE u64_accumulate(_, _)
\* the digit loop of from_str_radix: result = result.checked_mul(10)?.checked_add(digit)?
u64_accumulate(digits, result) ==
    IF digits = <<>> THEN Ok(U64Value(result))
    ELSE IF ~IsDigit(Head(digits)) THEN Err(ParseIntError("InvalidDigit"))
    ELSE IF result * 10 > U64_MAX THEN Err(ParseIntError("PosOverflow"))
    ELSE IF result * 10 + DigitOf(Head(digits)) > U64_MAX THEN Err(ParseIntError("PosOverflow"))
    ELSE u64_accumulate(Tail(digits), result * 10 + DigitOf(Head(digits)))

\* <u64 as FromStr>::from_str: one leading '+' is skipped, '-' is no digit of an
\* unsigned type, a lone sign and the empty string are errors
u64_from_str(s) ==
    IF s = <<>> THEN Err(ParseIntError("Empty"))
    ELSE IF Len(s) = 1 /\ Head(s) \in {"+", "-"} THEN Err(ParseIntError("InvalidDigit"))
    ELSE IF Head(s) = "+" THEN u64_accumulate(Tail(s), 0)
    ELSE u64_accumulate(s, 0)

-----------------------------------------------------------------------------
(* BigInt<T>: the derived Serialize / Deserialize go through DisplayFromStr *)

\* BigInt_serialize_as, were it to write the native number to a binary format
BigInt_serialize_as_native_in_binary(v, sr) ==
    IF sr.human_readable THEN serialize_str(sr, u64_to_string(v.n))
    ELSE serialize_u64(sr, v.n)

\* BigInt(*value).serialize(serializer): DisplayFromStr writes value.to_string()
BigInt_serialize_as(v, sr) == serialize_str(sr, u64_to_string(v.n))

\* BigInt_deserialize, were it to read the native number from a binary format
BigInt_deserialize_native_in_binary(de) ==
    IF ~de.human_readable THEN deserialize_u64(de)
    ELSE LET s == deserialize_string(de)
         IN  IF ~s.ok THEN DeErr(s.err, s.calls)
             ELSE LET r == u64_from_str(s.str)
                  IN  IF r.ok THEN DeOk(r.val, s.calls) ELSE DeErr(r.err, s.calls)

\* BigInt_deserialize, were it to fall back to the default on a parse error
BigInt_deserialize_or_default(de) ==
    LET s == deserialize_string(de)
    IN  IF ~s.ok THEN DeErr(s.err, s.calls)
        ELSE LET r == u64_from_str(s.str)
             IN  IF r.ok THEN DeOk(r.val, s.calls) ELSE DeOk(U64Value(0), s.calls)

\* BigInt::deserialize(deserializer): DisplayFromStr reads a string and parses it,
\* map_err(Error::custom) on the parser's error
BigInt_deserialize(de) ==
    LET s == deserialize_string(de)
    IN  IF ~s.ok THEN DeErr(s.err, s.calls)
        ELSE LET r == u64_from_str(s.str)
             IN  IF r.ok THEN DeOk(r.val, s.calls) ELSE DeErr(r.err, s.calls)

\* Ok(*BigInt::deserialize(deserializer)?)
BigInt_deserialize_as(de) ==
    LET b == BigInt_deserialize(de)
    IN  IF b.ok THEN DeOk(b.val, b.calls) ELSE b

-----------------------------------------------------------------------------
(* The default strategy (serde_with::Same, written `_`): T's own serde *)

Same_serialize_as(v, sr) == serialize_u64(sr, v.n)

Same_deserialize_as(de) == deserialize_u64(de)

-----------------------------------------------------------------------------
(* Readable<H, R>: the format dispatcher *)

\* the strategies H and R range over
Strategies == {"BigInt", "Same"}

\* H::serialize_as / R::serialize_as for a strategy given by name
SerializeAs(strategy, v, sr) ==
    CASE strategy = "BigInt" -> BigInt_serialize_as(v, sr)
      [] strategy = "Same" -> Same_serialize_as(v, sr)

\* H::deserialize_as / R::deserialize_as for a strategy given by name
DeserializeAs(strategy, de) ==
    CASE strategy = "BigInt" -> BigInt_deserialize_as(de)
      [] strategy = "Same" -> Same_deserialize_as(de)

\* the inner result r, with the dispatcher's own calls logged before the inner ones
Delegated(which, r) == [r EXCEPT !.calls = <<"is_human_readable", which>> \o r.calls]

\* Readable_serialize_as with the two branches exchanged
Readable_serialize_as_swapped(H, R, v, sr) ==
    IF sr.human_readable
    THEN Delegated("R::serialize_as", SerializeAs(R, v, sr))
    ELSE Delegated("H::serialize_as", SerializeAs(H, v, sr))

\* if serializer.is_human_readable() { H::serialize_as(..) } else { R::serialize_as(..) }
Readable_serialize_as(H, R, v, sr) ==
    IF sr.human_readable
    THEN Delegated("H::serialize_as", SerializeAs(H, v, sr))
    ELSE Delegated("R::serialize_as", SerializeAs(R, v, sr))

\* if deserializer.is_human_readable() { H::deserialize_as(..) } else { R::deserialize_as(..) }
Readable_deserialize_as(H, R, de) ==
    IF de.human_readable
    THEN Delegated("H::deserialize_as", DeserializeAs(H, de))
    ELSE Delegated("R::deserialize_as", DeserializeAs(R, de))

-----------------------------------------------------------------------------
(* SequenceNumber and AsProtocolVersion *)

\* crate::base_types::SequenceNumber, an opaque newtype over u64
SequenceNumber_from_u64(n) == [NoValue EXCEPT !.ty = "SequenceNumber", !.n = n]
SequenceNumber_value(v) == v.n

\* sui_protocol_config::ProtocolVersion, an opaque newtype over u64
ProtocolVersion_from(n) == [NoValue EXCEPT !.ty = "ProtocolVersion", !.n = n]
ProtocolVersion_as_u64(v) == v.n

\* SequenceNumber_serialize_as, were it to write the native number to a binary format
SequenceNumber_serialize_as_native_in_binary(v, sr) ==
    IF sr.human_readable THEN serialize_str(sr, u64_to_string(SequenceNumber_value(v)))
    ELSE serialize_u64(sr, SequenceNumber_value(v))

\* let s = value.value().to_string(); s.serialize(serializer)
SequenceNumber_serialize_as(v, sr) ==
    serialize_str(sr, u64_to_string(SequenceNumber_value(v)))

\* let b = BigInt::deserialize(deserializer)?; Ok(SequenceNumber::from_u64(*b))
SequenceNumber_deserialize_as(de) ==
    LET b == BigInt_deserialize(de)
    IN  IF b.ok THEN DeOk(SequenceNumber_from_u64(b.val.n), b.calls) ELSE b

\* let s = value.as_u64().to_string(); s.serialize(serializer)
AsProtocolVersion_serialize_as(v, sr) ==
    serialize_str(sr, u64_to_string(ProtocolVersion_as_u64(v)))

\* let b = BigInt::<u64>::deserialize(deserializer)?; Ok(ProtocolVersion::from(*b))
AsProtocolVersion_deserialize_as(de) ==
    LET b == BigInt_deserialize(de)
    IN  IF b.ok THEN DeOk(ProtocolVersion_from(b.val.n), b.calls) ELSE b

-----------------------------------------------------------------------------
(* AccountAddress and its hex text *)

HexChars == <<"0", "1", "2", "3", "4", "5", "6", "7", "8", "9",
              "a", "b", "c", "d", "e", "f">>
UpperHexChars == <<"0", "1", "2", "3", "4", "5", "6", "7", "8", "9",
                   "A", "B", "C", "D", "E", "F">>

IsHexChar(c) == \E i \in 1..16 : HexChars[i] = c \/ UpperHexChars[i] = c
HexVal(c) == (CHOOSE i \in 1..16 : HexChars[i] = c \/ UpperHexChars[i] = c) - 1

\* hex::encode: two lower-case digits per byte
hex_encode(bytes) ==
    Concat([i \in 1..Len(bytes) |->
              <<HexChars[(bytes[i] \div 16) + 1], HexChars[(bytes[i] % 16) + 1]>>])

\* fastcrypto's Hex::serialize_as: the 0x-prefixed lower-case hex text, as a string
Hex_serialize_as(bytes, sr) == serialize_str(sr, <<"0", "x">> \o hex_encode(bytes))

\* the {:?} rendering of AccountAddressParseError
AccountAddressParseError == <<"AccountAddressParseError">>

\* AccountAddress::from_hex: <[u8; LENGTH]>::from_hex(hex), which wants an even
\* number of characters, exactly 2 * LENGTH of them, all hex digits
AccountAddress_from_hex(s) ==
    IF Len(s) % 2 # 0 THEN Err(AccountAddressParseError)
    ELSE IF Len(s) \div 2 # LENGTH THEN Err(AccountAddressParseError)
    ELSE IF \E i \in 1..Len(s) : ~IsHexChar(s[i]) THEN Err(AccountAddressParseError)
    ELSE Ok(AddressValue([i \in 1..LENGTH |->
                            16 * HexVal(s[2 * i - 1]) + HexVal(s[2 * i])]))

\* AccountAddress::from_hex_literal: wants the 0x prefix, left-pads a short
\* literal with zeros to 2 * LENGTH digits, then from_hex
AccountAddress_from_hex_literal(s) ==
    IF ~StartsWith(s, <<"0", "x">>) THEN Err(AccountAddressParseError)
    ELSE LET hex_len == Len(s) - 2
             body == SubSeq(s, 3, Len(s))
         IN  IF hex_len < LENGTH * 2
             THEN AccountAddress_from_hex([i \in 1..(LENGTH * 2 - hex_len) |-> "0"] \o body)
             ELSE AccountAddress_from_hex(body)

\* HexAccountAddress_serialize_as, were it to write the raw bytes to a binary format
HexAccountAddress_serialize_as_raw_in_binary(v, sr) ==
    IF sr.human_readable THEN Hex_serialize_as(v.bytes, sr)
    ELSE serialize_bytes(sr, v.bytes)

\* Hex::serialize_as(value, serializer)
HexAccountAddress_serialize_as(v, sr) == Hex_serialize_as(v.bytes, sr)

\* HexAccountAddress_deserialize_as, were the bare text parsed as leniently as a
\* literal (left-padded to the full length)
HexAccountAddress_deserialize_as_padding(de) ==
    LET s == deserialize_string(de)
    IN  IF ~s.ok THEN DeErr(s.err, s.calls)
        ELSE LET r == IF StartsWith(s.str, <<"0", "x">>)
                      THEN AccountAddress_from_hex_literal(s.str)
                      ELSE AccountAddress_from_hex_literal(<<"0", "x">> \o s.str)
             IN  IF r.ok THEN DeOk(r.val, s.calls)
                 ELSE DeErr(to_custom_error(r.err), s.calls)

\* String::deserialize, then from_hex_literal or from_hex by the 0x prefix,
\* map_err(to_custom_error)
HexAccountAddress_deserialize_as(de) ==
    LET s == deserialize_string(de)
    IN  IF ~s.ok THEN DeErr(s.err, s.calls)
        ELSE LET r == IF StartsWith(s.str, <<"0", "x">>)
                      THEN AccountAddress_from_hex_literal(s.str)
                      ELSE AccountAddress_from_hex(s.str)
             IN  IF r.ok THEN DeOk(r.val, s.calls)
                 ELSE DeErr(to_custom_error(r.err), s.calls)

-----------------------------------------------------------------------------
(* StructTag and TypeTag: canonical text and the crate's parsers *)

PrimitiveTags == {"bool", "u64", "address"}

Primitive(p) == [NoTag EXCEPT !.tag = p]
Vector(t) == [NoTag EXCEPT !.tag = "vector", !.args = <<t>>]
Struct(a, m, n, ps) ==
    [tag |-> "struct", addr |-> a, module |-> m, name |-> n, args |-> ps]

RECURSIVE TypeTagsOfDepth(_)
\* the type tags nested at most d deep; a struct has at most two type parameters
TypeTagsOfDepth(d) ==
    IF d = 0 THEN {Primitive(p) : p \in PrimitiveTags}
    ELSE LET inner == TypeTagsOfDepth(d - 1)
         IN  {Primitive(p) : p \in PrimitiveTags}
             \cup {Vector(t) : t \in inner}
             \cup {Struct("0x2", "coin", "Coin", ps) : ps \in SeqsUpTo(inner, 2)}

TypeTags == TypeTagsOfDepth(MaxDepth)
StructTags == {t \in TypeTags : t.tag = "struct"}

RECURSIVE TypeTag_to_string(_)
\* <TypeTag as Display>::fmt and <StructTag as Display>::fmt, as tokens
TypeTag_to_string(t) ==
    CASE t.tag = "vector" -> <<"vector", "<">> \o TypeTag_to_string(t.args[1]) \o <<">">>
      [] t.tag = "struct" ->
            <<t.addr, "::", t.module, "::", t.name>>
            \o (IF t.args = <<>> THEN <<>>
                ELSE <<"<">>
                     \o Concat([i \in 1..Len(t.args) |->
                                  (IF i = 1 THEN <<>> ELSE <<",">>)
                                  \o TypeTag_to_string(t.args[i])])
                     \o <<">">>)
      [] OTHER -> <<t.tag>>

StructTag_to_string(t) == TypeTag_to_string(t)

\* crate::parse_sui_type_tag: the tag whose canonical text s is, or a syntax error
parse_sui_type_tag(s) ==
    IF \E t \in TypeTags : TypeTag_to_string(t) = s
    THEN Ok(TypeTagValue(CHOOSE t \in TypeTags : TypeTag_to_string(t) = s))
    ELSE Err(<<"unexpected", "token">>)

\* crate::parse_sui_struct_tag: the same for a struct tag
parse_sui_struct_tag(s) ==
    IF \E t \in StructTags : StructTag_to_string(t) = s
    THEN Ok(StructTagValue(CHOOSE t \in StructTags : StructTag_to_string(t) = s))
    ELSE Err(<<"unexpected", "token">>)

\* let s = value.to_string(); s.serialize(serializer)
SuiStructTag_serialize_as(v, sr) == serialize_str(sr, StructTag_to_string(v.tag))

\* let s = String::deserialize(deserializer)?; parse_sui_struct_tag(&s).map_err(custom)
SuiStructTag_deserialize_as(de) ==
    LET s == deserialize_string(de)
    IN  IF ~s.ok THEN DeErr(s.err, s.calls)
        ELSE LET r == parse_sui_struct_tag(s.str)
             IN  IF r.ok THEN DeOk(r.val, s.calls) ELSE DeErr(r.err, s.calls)

\* let s = value.to_string(); s.serialize(serializer)
SuiTypeTag_serialize_as(v, sr) == serialize_str(sr, TypeTag_to_string(v.tag))

\* let s = String::deserialize(deserializer)?; parse_sui_type_tag(&s).map_err(custom)
SuiTypeTag_deserialize_as(de) ==
    LET s == deserialize_string(de)
    IN  IF ~s.ok THEN DeErr(s.err, s.calls)
        ELSE LET r == parse_sui_type_tag(s.str)
             IN  IF r.ok THEN DeOk(r.val, s.calls) ELSE DeErr(r.err, s.calls)

-----------------------------------------------------------------------------
(* RoaringBitmap and its on-disk format (roaring's serialize_into and          *)
(* deserialize_from).  A bitmap is its sequence of containers [key, values]:  *)
(* key is the high 16 bits, values the ascending low 16 bits.  A u32 is kept  *)
(* as the pair <<high 16 bits, low 16 bits>>.                                 *)

SERIAL_COOKIE_NO_RUNCONTAINER == 12346
SERIAL_COOKIE == 12347
\* a container of more than ARRAY_LIMIT values is stored as a bitmap of
\* BITMAP_LENGTH 64-bit words, a smaller one as an array of u16
ARRAY_LIMIT == 4096
BITMAP_LENGTH == 1024

Bytes256 == 0..255

U16LE(n) == <<n % 256, n \div 256>>
U32LE(n) == <<n % 256, (n \div 256) % 256, (n \div 65536) % 256, n \div 16777216>>
ReadU16LE(bytes, pos) == bytes[pos] + 256 * bytes[pos + 1]

\* the u32 value v as <<high, low>>
Split(v) == <<v \div 65536, v % 65536>>

\* the bitmap holding the set S of <<high, low>> pairs
RoaringBitmap_from_set(S) ==
    LET keys == SortedSeq({p[1] : p \in S})
    IN  [i \in 1..Len(keys) |->
           [key |-> keys[i], values |-> SortedSeq({p[2] : p \in {q \in S : q[1] = keys[i]}})]]

\* the set of <<high, low>> pairs a sequence of containers holds
RoaringBitmap_to_set(cs) ==
    UNION {{<<cs[i].key, cs[i].values[j]>> : j \in 1..Len(cs[i].values)} : i \in 1..Len(cs)}

\* the bytes of a container's store
StoreBytes(values) ==
    IF Len(values) <= ARRAY_LIMIT
    THEN Concat([j \in 1..Len(values) |-> U16LE(values[j])])
    ELSE LET set == {values[j] : j \in 1..Len(values)}
             bit(k, j) == IF (8 * k + j) \in set THEN 2^j ELSE 0
         IN  [i \in 1..(8 * BITMAP_LENGTH) |->
                bit(i - 1, 0) + bit(i - 1, 1) + bit(i - 1, 2) + bit(i - 1, 3)
                + bit(i - 1, 4) + bit(i - 1, 5) + bit(i - 1, 6) + bit(i - 1, 7)]

StoreSize(values) == IF Len(values) <= ARRAY_LIMIT THEN 2 * Len(values) ELSE 8 * BITMAP_LENGTH

RECURSIVE Offsets(_, _)
\* the offset header: where each container's store starts
Offsets(cs, offset) ==
    IF cs = <<>> THEN <<>>
    ELSE U32LE(offset) \o Offsets(Tail(cs), offset + StoreSize(Head(cs).values))

\* RoaringBitmap::serialize_into(&mut bytes): cookie, container count, one
\* (key, cardinality - 1) description per container, the offset header, the stores
RoaringBitmap_serialize_into(cs) ==
    U32LE(SERIAL_COOKIE_NO_RUNCONTAINER)
    \o U32LE(Len(cs))
    \o Concat([i \in 1..Len(cs) |-> U16LE(cs[i].key) \o U16LE(Len(cs[i].values) - 1)])
    \o Offsets(cs, 8 + 8 * Len(cs))
    \o Concat([i \in 1..Len(cs) |-> StoreBytes(cs[i].values)])

\* the {:?} rendering of an io::Error
IoError(msg) == <<"Custom", "{", "kind:", "Other,", "error:", msg, "}">>
UnexpectedEof == <<"Error", "{", "kind:", "UnexpectedEof,", "message:",
                   "failed to fill whole buffer", "}">>

\* ArrayStore::try_from(values): the values must be strictly increasing
ArrayStore_valid(values) == \A j \in 1..(Len(values) - 1) : values[j] < values[j + 1]

\* the values a bitmap store of 8 * BITMAP_LENGTH bytes at pos holds, ascending
BitmapStoreValues(bytes, pos) ==
    SortedSeq({v \in 0..(64 * BITMAP_LENGTH - 1) :
                 (bytes[pos + (v \div 8)] \div 2^(v % 8)) % 2 = 1})

RECURSIVE ReadContainers(_, _, _, _, _)
\* the loop over the descriptions: container i of size, its store read at pos
ReadContainers(bytes, i, size, pos, acc) ==
    IF i > size THEN Ok(BitmapValue(acc))
    ELSE LET key == ReadU16LE(bytes, 8 + 4 * (i - 1) + 1)
             len == ReadU16LE(bytes, 8 + 4 * (i - 1) + 3) + 1
         IN  IF len <= ARRAY_LIMIT
             THEN IF Len(bytes) < pos - 1 + 2 * len THEN Err(UnexpectedEof)
                  ELSE LET values == [j \in 1..len |-> ReadU16LE(bytes, pos + 2 * (j - 1))]
                       IN  IF ~ArrayStore_valid(values)
                           THEN Err(IoError("values are not strictly increasing"))
                           ELSE ReadContainers(bytes, i + 1, size, pos + 2 * len,
                                               Append(acc, [key |-> key, values |-> values]))
             ELSE IF Len(bytes) < pos - 1 + 8 * BITMAP_LENGTH THEN Err(UnexpectedEof)
                  ELSE LET values == BitmapStoreValues(bytes, pos)
                       IN  IF Len(values) # len
                           THEN Err(IoError("unexpected cardinality"))
                           ELSE ReadContainers(bytes, i + 1, size, pos + 8 * BITMAP_LENGTH,
                                               Append(acc, [key |-> key, values |-> values]))

\* RoaringBitmap::deserialize_from(&bytes[..]): the cookie, the container count
\* (at most u16::MAX + 1), the descriptions, the offset header (read and
\* dropped), then the containers; bytes after the last container are not read
RoaringBitmap_deserialize_from(bytes) ==
    IF Len(bytes) < 4 THEN Err(UnexpectedEof)
    ELSE IF SubSeq(bytes, 1, 4) # U32LE(SERIAL_COOKIE_NO_RUNCONTAINER)
    THEN IF ReadU16LE(bytes, 1) = SERIAL_COOKIE
         THEN Err(IoError("run containers are unsupported"))
         ELSE Err(IoError("unknown cookie value"))
    ELSE IF Len(bytes) < 8 THEN Err(UnexpectedEof)
    ELSE LET lo == ReadU16LE(bytes, 5)
             hi == ReadU16LE(bytes, 7)
         IN  IF hi > 1 \/ (hi = 1 /\ lo > 0)
             THEN Err(IoError("size is greater than supported"))
             ELSE LET size == 65536 * hi + lo
                  IN  IF Len(bytes) < 8 + 4 * size THEN Err(UnexpectedEof)
                      ELSE IF Len(bytes) < 8 + 8 * size THEN Err(UnexpectedEof)
                      ELSE ReadContainers(bytes, 1, size, 8 + 8 * size + 1, <<>>)

\* SuiBitmap_serialize_as, were it to write hex text to a human-readable format
SuiBitmap_serialize_as_text(v, sr) ==
    IF sr.human_readable
    THEN serialize_str(sr, hex_encode(RoaringBitmap_serialize_into(v.containers)))
    ELSE serialize_bytes(sr, RoaringBitmap_serialize_into(v.containers))

\* source.serialize_into(&mut bytes).map_err(to_custom_ser_error)?; writing into a
\* Vec does not fail; then Bytes::serialize_as(&bytes, serializer)
SuiBitmap_serialize_as(v, sr) == serialize_bytes(sr, RoaringBitmap_serialize_into(v.containers))

\* SuiBitmap_deserialize_as, were it to accept only the blob serialize_into writes
\* for the decoded bitmap
SuiBitmap_deserialize_as_canonical(de) ==
    LET b == deserialize_bytes(de)
    IN  IF ~b.ok THEN DeErr(b.err, b.calls)
        ELSE LET r == RoaringBitmap_deserialize_from(b.bytes)
             IN  IF ~r.ok THEN DeErr(to_custom_error(r.err), b.calls)
                 ELSE IF RoaringBitmap_serialize_into(r.val.containers) # b.bytes
                 THEN DeErr(to_custom_error(IoError("not canonical")), b.calls)
                 ELSE DeOk(r.val, b.calls)

\* Bytes::deserialize_as(deserializer)?, then
\* RoaringBitmap::deserialize_from(&bytes[..]).map_err(to_custom_error)
SuiBitmap_deserialize_as(de) ==
    LET b == deserialize_bytes(de)
    IN  IF ~b.ok THEN DeErr(b.err, b.calls)
        ELSE LET r == RoaringBitmap_deserialize_from(b.bytes)
             IN  IF r.ok THEN DeOk(r.val, b.calls)
                 ELSE DeErr(to_custom_error(r.err), b.calls)

-----------------------------------------------------------------------------
(* The inputs *)

Plain(name) == [name |-> name, H |-> "", R |-> ""]

Adapters ==
    {Plain(n) : n \in {"BigInt", "SequenceNumber", "AsProtocolVersion", "HexAccountAddress",
                       "SuiBitmap", "SuiStructTag", "SuiTypeTag"}}
    \cup {[name |-> "Readable", H |-> h, R |-> r] : h \in Strategies, r \in Strategies}

\* the bytes an address is built from
AddressBytes == {0, 1, 171, 255}

\* the values a bitmap is built from
BitmapValues == {0, 1, 1000, 1000000}

Bitmaps ==
    {RoaringBitmap_from_set({Split(v) : v \in S}) :
        S \in {T \in SUBSET BitmapValues : Cardinality(T) <= MaxCard}}

\* the values serialize_as is called on, by adapter
ValuesOf(a) ==
    CASE a.name \in {"BigInt", "Readable"} -> {U64Value(n) : n \in 0..U64_MAX}
      [] a.name = "SequenceNumber" -> {SequenceNumber_from_u64(n) : n \in 0..U64_MAX}
      [] a.name = "AsProtocolVersion" -> {ProtocolVersion_from(n) : n \in 0..U64_MAX}
      [] a.name = "HexAccountAddress" -> {AddressValue(b) : b \in SeqsOfLen(AddressBytes, LENGTH)}
      [] a.name = "SuiBitmap" -> {BitmapValue(cs) : cs \in Bitmaps}
      [] a.name = "SuiStructTag" -> {StructTagValue(t) : t \in StructTags}
      [] a.name = "SuiTypeTag" -> {TypeTagValue(t) : t \in TypeTags}

\* the characters of the texts handed to the numeric parsers: the digits of
\* u64::MAX and of u64::MAX + 1, a zero, the signs and a letter
NumChars ==
    LET max == u64_to_string(U64_MAX)
        over == u64_to_string(U64_MAX + 1)
    IN  {"0", "+", "-", "a"} \cup {max[i] : i \in 1..Len(max)} \cup {over[i] : i \in 1..Len(over)}

\* the characters of the texts handed to the address parser
HexInputChars == {"0", "a", "x"}

\* a type tag's text and the same with its last token missing
TagTexts(tags) ==
    {TypeTag_to_string(t) : t \in tags}
    \cup {SubSeq(TypeTag_to_string(t), 1, Len(TypeTag_to_string(t)) - 1) : t \in tags}

\* the items a deserializer is handed from outside, by adapter
SuppliedTo(a) ==
    CASE a.name \in {"BigInt", "Readable", "SequenceNumber", "AsProtocolVersion"} ->
            {StrItem(s) : s \in SeqsUpTo(NumChars, MaxStrLen)}
            \cup {U64Item(0), U64Item(U64_MAX)}
      [] a.name = "HexAccountAddress" ->
            {StrItem(s) : s \in SeqsUpTo(HexInputChars, 2 * LENGTH + 2)}
      [] a.name = "SuiBitmap" -> {BytesItem(<<>>), StrItem(<<>>)}
      [] a.name = "SuiStructTag" -> {StrItem(s) : s \in TagTexts(StructTags)}
      [] a.name = "SuiTypeTag" -> {StrItem(s) : s \in TagTexts(TypeTags)}

-----------------------------------------------------------------------------
(* The state machine: one serialize_as call, then one deserialize_as call on  *)
(* what it wrote (a round trip), or one deserialize_as call on a supplied item *)

NotRunSer == SerErr(<<"not", "run">>, <<>>)
NotRunDe == DeErr(<<"not", "run">>, <<>>)
NoCorruption == [pos |-> 0, byte |-> 0]

InitWith(adapters) ==
    /\ adapter \in adapters
    /\ ser \in Serializers
    /\ encoded = NotRunSer
    /\ decoded = NotRunDe
    /\ corrupt = NoCorruption
    /\ \/ /\ pc = "start"
          /\ value \in ValuesOf(adapter)
          /\ wire = NoItem
       \/ /\ pc = "supplied"
          /\ ser.rejects = "none"
          /\ value = NoValue
          /\ wire \in SuppliedTo(adapter)

Init == InitWith(Adapters)

\* serialize_as of adapter `name` returned r
Encode(name, r) ==
    /\ pc = "start"
    /\ adapter.name = name
    /\ encoded' = r
    /\ wire' = r.item
    /\ pc' = IF r.ok THEN "encoded" ELSE "failed"
    /\ UNCHANGED <<adapter, ser, value, corrupt, decoded>>

\* deserialize_as of adapter `name` returned r
Decode(name, r) ==
    /\ pc \in {"encoded", "supplied", "corrupted"}
    /\ adapter.name = name
    /\ decoded' = r
    /\ pc' = "decoded"
    /\ UNCHANGED <<adapter, ser, value, encoded, wire, corrupt>>

De == Deserializer(ser, wire)

ReadableSerialize == Encode("Readable", Readable_serialize_as(adapter.H, adapter.R, value, ser))
ReadableDeserialize == Decode("Readable", Readable_deserialize_as(adapter.H, adapter.R, De))

BigIntSerialize == Encode("BigInt", BigInt_serialize_as(value, ser))
BigIntDeserialize == Decode("BigInt", BigInt_deserialize_as(De))

SequenceNumberSerialize == Encode("SequenceNumber", SequenceNumber_serialize_as(value, ser))
SequenceNumberDeserialize == Decode("SequenceNumber", SequenceNumber_deserialize_as(De))

AsProtocolVersionSerialize ==
    Encode("AsProtocolVersion", AsProtocolVersion_serialize_as(value, ser))
AsProtocolVersionDeserialize ==
    Decode("AsProtocolVersion", AsProtocolVersion_deserialize_as(De))

HexAccountAddressSerialize ==
    Encode("HexAccountAddress", HexAccountAddress_serialize_as(value, ser))
HexAccountAddressDeserialize ==
    Decode("HexAccountAddress", HexAccountAddress_deserialize_as(De))

SuiBitmapSerialize == Encode("SuiBitmap", SuiBitmap_serialize_as(value, ser))
SuiBitmapDeserialize == Decode("SuiBitmap", SuiBitmap_deserialize_as(De))

SuiStructTagSerialize == Encode("SuiStructTag", SuiStructTag_serialize_as(value, ser))
SuiStructTagDeserialize == Decode("SuiStructTag", SuiStructTag_deserialize_as(De))

SuiTypeTagSerialize == Encode("SuiTypeTag", SuiTypeTag_serialize_as(value, ser))
SuiTypeTagDeserialize == Decode("SuiTypeTag", SuiTypeTag_deserialize_as(De))

Next ==
    \/ ReadableSerialize
    \/ ReadableDeserialize
    \/ BigIntSerialize
    \/ BigIntDeserialize
    \/ SequenceNumberSerialize
    \/ SequenceNumberDeserialize
    \/ AsProtocolVersionSerialize
    \/ AsProtocolVersionDeserialize
    \/ HexAccountAddressSerialize
    \/ HexAccountAddressDeserialize
    \/ SuiBitmapSerialize
    \/ SuiBitmapDeserialize
    \/ SuiStructTagSerialize
    \/ SuiStructTagDeserialize
    \/ SuiTypeTagSerialize
    \/ SuiTypeTagDeserialize

Spec == Init /\ [][Next]_vars

-----------------------------------------------------------------------------
(* The bitmap codec with one byte of the encoded blob changed in transit *)

\* one byte of the blob is changed to another value before it is decoded
CorruptByte ==
    /\ pc = "encoded"
    /\ adapter.name = "SuiBitmap"
    /\ \E pos \in 1..Len(wire.bytes) :
         \E b \in Bytes256 \ {wire.bytes[pos]} :
            /\ wire' = BytesItem([wire.bytes EXCEPT ![pos] = b])
            /\ corrupt' = [pos |-> pos, byte |-> b]
    /\ pc' = "corrupted"
    /\ UNCHANGED <<adapter, ser, value, encoded, decoded>>

InitCorrupt ==
    /\ InitWith({Plain("SuiBitmap")})
    /\ pc = "start"
    /\ ser.rejects = "none"

NextCorrupt ==
    \/ SuiBitmapSerialize
    \/ CorruptByte
    \/ SuiBitmapDeserialize

SpecCorrupt == InitCorrupt /\ [][NextCorrupt]_vars

-----------------------------------------------------------------------------
(* Properties *)

\* serialize_as of adapter `name` has been called
Serialized(name) == adapter.name = name /\ encoded # NotRunSer

\* deserialize_as of adapter `name` has been called
Deserialized(name) == adapter.name = name /\ pc = "decoded"

\* ... on the item its own serialize_as wrote, unchanged
RoundTripped(name) == Deserialized(name) /\ encoded.ok /\ corrupt.pos = 0

\* ... on a text supplied from outside
Parsed(name) == Deserialized(name) /\ encoded = NotRunSer /\ wire.kind = "str"

\* the serializer that differs from sr in the reported mode only
OtherMode(sr) == [sr EXCEPT !.human_readable = ~@]

RECURSIVE DecValue(_)
\* the number a sequence of decimal digits denotes
DecValue(s) ==
    IF s = <<>> THEN 0
    ELSE 10 * DecValue(SubSeq(s, 1, Len(s) - 1)) + DigitOf(s[Len(s)])

AllDigits(s) == \A i \in 1..Len(s) : IsDigit(s[i])

\* s is the decimal text of n: digits only, no leading zero but for "0" itself
IsDecimalOf(s, n) ==
    /\ s # <<>>
    /\ AllDigits(s)
    /\ (Len(s) > 1 => s[1] # "0")
    /\ DecValue(s) = n

\* the digits of a u64 literal: the text, less one leading '+'
LiteralDigits(s) == IF s # <<>> /\ s[1] = "+" THEN Tail(s) ELSE s

\* s is a literal of the (model's) u64
IsU64Literal(s) ==
    /\ LiteralDigits(s) # <<>>
    /\ AllDigits(LiteralDigits(s))
    /\ DecValue(LiteralDigits(s)) <= U64_MAX

----
\* C1: Readable<H, R>::serialize_as returns exactly what H::serialize_as returns
\* (Ok or Err) under a human-readable serializer and what R::serialize_as returns
\* otherwise, and deserialize_as does the same with the deserializer's mode; the
\* strategy called is decided by the mode flag alone, and the dispatcher adds no
\* error of its own.
C1_ReadableDelegates ==
    /\ Serialized("Readable") =>
         LET chosen == IF ser.human_readable THEN adapter.H ELSE adapter.R
             inner == SerializeAs(chosen, value, ser)
         IN  /\ encoded.ok = inner.ok
             /\ encoded.item = inner.item
             /\ encoded.err = inner.err
             /\ encoded.calls[1] = "is_human_readable"
             /\ encoded.calls[2] = (IF ser.human_readable THEN "H::serialize_as"
                                    ELSE "R::serialize_as")
             /\ SubSeq(encoded.calls, 3, Len(encoded.calls)) = inner.calls
    /\ Deserialized("Readable") =>
         LET chosen == IF ser.human_readable THEN adapter.H ELSE adapter.R
             inner == DeserializeAs(chosen, De)
         IN  /\ decoded.ok = inner.ok
             /\ decoded.val = inner.val
             /\ decoded.err = inner.err
             /\ decoded.calls[2] = (IF ser.human_readable THEN "H::deserialize_as"
                                    ELSE "R::deserialize_as")
             /\ SubSeq(decoded.calls, 3, Len(decoded.calls)) = inner.calls

\* a binary round trip through Readable<BigInt, Same> whose writer rejects strings:
\* H would have failed, R was called and wrote the native number
C1_Witness ==
    /\ RoundTripped("Readable")
    /\ adapter.H = "BigInt" /\ adapter.R = "Same"
    /\ ~ser.human_readable /\ ser.rejects = "str"
    /\ wire = U64Item(U64_MAX)
    /\ decoded.ok /\ decoded.val = value

----
\* C2: for every u64 (0 and u64::MAX included), encoding with BigInt<u64> and then
\* decoding with BigInt<u64> under the same mode yields the value, in the
\* human-readable mode and in the binary mode.
C2_BigIntRoundTrip ==
    RoundTripped("BigInt") => decoded.ok /\ decoded.val = value

C2_Witness ==
    /\ RoundTripped("BigInt")
    /\ ~ser.human_readable
    /\ value = U64Value(U64_MAX)
    /\ decoded.ok /\ decoded.val.n = U64_MAX

----
\* C3 as stated: under a binary serializer BigInt<T> writes the native binary
\* number, and it writes the decimal string only under a human-readable one.
C3_NativeInBinary ==
    (Serialized("BigInt") /\ encoded.ok) =>
        IF ser.human_readable
        THEN encoded.item.kind = "str" /\ IsDecimalOf(encoded.item.str, value.n)
        ELSE encoded.item = U64Item(value.n)

\* C3, amended: BigInt<T> writes the decimal string of the value under every
\* serializer, human-readable or binary, without asking for the mode; it fails
\* only when the writer rejects the string.
C3_StringInBothModes ==
    Serialized("BigInt") =>
        /\ encoded.ok = (ser.rejects # "str")
        /\ encoded.ok => /\ encoded.item.kind = "str"
                         /\ IsDecimalOf(encoded.item.str, value.n)
        /\ encoded.calls = <<"serialize_str">>

C3_Witness ==
    /\ Serialized("BigInt")
    /\ ~ser.human_readable
    /\ value.n = U64_MAX
    /\ encoded.ok /\ encoded.item.kind = "str"

----
ZeroAddress == AddressValue([i \in 1..LENGTH |-> 0])
FullZeroText == [i \in 1..(2 * LENGTH) |-> "0"]

\* C4 as stated: HexAccountAddress::deserialize_as decodes "0x00" and "00" to the
\* same zero address.
C4_BothDecodeToZero ==
    (Parsed("HexAccountAddress") /\ wire.str \in {<<"0", "x", "0", "0">>, <<"0", "0">>}) =>
        decoded.ok /\ decoded.val = ZeroAddress

\* C4, amended: "0x00" decodes to the zero address (a short literal is left-padded),
\* but the bare "00" is rejected with an error: without the prefix the text must
\* be exactly 2 * LENGTH hex digits, and the bare text of 2 * LENGTH zeros is what
\* decodes to the same zero address as "0x00".
C4_BareNeedsFullLength ==
    Parsed("HexAccountAddress") =>
        /\ wire.str = <<"0", "x", "0", "0">> => decoded.ok /\ decoded.val = ZeroAddress
        /\ wire.str = <<"0", "0">> => ~decoded.ok
        /\ wire.str = FullZeroText => decoded.ok /\ decoded.val = ZeroAddress
        /\ (decoded.ok /\ ~StartsWith(wire.str, <<"0", "x">>)) => Len(wire.str) = 2 * LENGTH

C4_Witness ==
    /\ Parsed("HexAccountAddress")
    /\ wire.str = <<"0", "0">>
    /\ ~decoded.ok

----
\* C5: for every bitmap b (the empty one and {1, 1000, 1000000} among them),
\* SuiBitmap::deserialize_as on the output of SuiBitmap::serialize_as(b) under the
\* same mode succeeds and returns a bitmap holding exactly the values of b.
C5_BitmapRoundTrip ==
    RoundTripped("SuiBitmap") =>
        /\ decoded.ok
        /\ RoaringBitmap_to_set(decoded.val.containers) = RoaringBitmap_to_set(value.containers)

C5_Witness ==
    /\ RoundTripped("SuiBitmap")
    /\ RoaringBitmap_to_set(value.containers) = {Split(1), Split(1000), Split(1000000)}
    /\ decoded.ok
    /\ decoded.val = value

----
\* the blob was decoded after one of its bytes was changed
DecodedCorrupted == Deserialized("SuiBitmap") /\ corrupt.pos > 0

\* the byte changed lies in the offset header of the blob
InOffsetHeader ==
    LET n == Len(value.containers)
    IN  corrupt.pos \in (8 + 4 * n + 1)..(8 + 8 * n)

\* C6 as stated: changing any one byte of the blob to another value makes
\* SuiBitmap::deserialize_as return an error.
C6_CorruptionFails ==
    DecodedCorrupted => ~decoded.ok

\* C6, amended: changing one byte past the 4-byte cookie makes deserialize_as
\* return Ok with exactly b when the byte lies in the offset header (which the
\* decoder reads and drops), and otherwise either an error or Ok with a bitmap
\* that differs from b: a changed blob that is still a valid encoding, such as
\* one with another low byte in a stored value, decodes silently.
C6_CorruptionMayDecode ==
    (DecodedCorrupted /\ corrupt.pos > 4) =>
        IF InOffsetHeader
        THEN /\ decoded.ok
             /\ RoaringBitmap_to_set(decoded.val.containers)
                    = RoaringBitmap_to_set(value.containers)
        ELSE decoded.ok =>
                RoaringBitmap_to_set(decoded.val.containers)
                    # RoaringBitmap_to_set(value.containers)

\* the low byte of the stored value 1 of {1} changed to 2: decoded as {2}
C6_Witness ==
    /\ DecodedCorrupted
    /\ RoaringBitmap_to_set(value.containers) = {Split(1)}
    /\ ~InOffsetHeader
    /\ decoded.ok
    /\ RoaringBitmap_to_set(decoded.val.containers) = {Split(2)}

----
\* C7 as stated: under a human-readable deserializer BigInt<u64>::deserialize_as
\* returns an error for a text that is empty, holds a non-digit character or a
\* sign, or denotes a value above u64::MAX.
C7_SignIsAnError ==
    (Parsed("BigInt") /\ ser.human_readable) =>
        ((wire.str = <<>> \/ ~AllDigits(wire.str) \/ DecValue(wire.str) > U64_MAX)
            => ~decoded.ok)

\* C7, amended: under a human-readable deserializer BigInt<u64>::deserialize_as
\* returns an error for a text that is no u64 literal (empty, a non-digit
\* character, a '-', a lone '+', a '+' elsewhere than in front, or a value above
\* u64::MAX); one leading '+' before the digits is part of a literal ("+5" is 5);
\* it returns Ok(v) exactly when the text is a literal, v being its value, never
\* a default or truncated value.
C7_OnlyLiteralsParse ==
    (Parsed("BigInt") /\ ser.human_readable) =>
        /\ decoded.ok = IsU64Literal(wire.str)
        /\ decoded.ok => decoded.val = U64Value(DecValue(LiteralDigits(wire.str)))

\* a text with a leading '+' is parsed
C7_Witness ==
    /\ Parsed("BigInt")
    /\ ser.human_readable
    /\ Len(wire.str) > 1 /\ wire.str[1] = "+"
    /\ decoded.ok /\ decoded.val.n > 0

----
\* the adapter's library call failed and the error went through to_custom_error
TranslatedError ==
    /\ \/ Deserialized("HexAccountAddress") /\ wire.kind = "str"
       \/ Deserialized("SuiBitmap") /\ wire.kind = "bytes"
    /\ ~decoded.ok

\* C8: to_custom_error and to_custom_ser_error produce a custom error whose message
\* is "<operation> failed, caused by: <details>", <details> being the {:?}
\* rendering of the underlying error.
C8_CausedByMessage ==
    TranslatedError =>
        LET details == SubSeq(decoded.err, 6, Len(decoded.err))
        IN  /\ details # <<>>
            /\ decoded.err = <<"byte", "deserialization", "failed,", "caused", "by:">> \o details
            /\ to_custom_ser_error(details)
                   = <<"byte", "serialization", "failed,", "caused", "by:">> \o details

----
\* C9: HexAccountAddress, SuiStructTag and SuiTypeTag use one representation for
\* both modes: serialize_as writes the same single string under a human-readable
\* and under a binary serializer, and deserialize_as reads a string in both modes;
\* neither asks for the mode.
C9_OneRepresentation ==
    /\ \A name \in {"HexAccountAddress", "SuiStructTag", "SuiTypeTag"} :
         /\ Serialized(name) =>
              /\ encoded.calls = <<"serialize_str">>
              /\ encoded.ok => encoded.item.kind = "str"
         /\ Deserialized(name) => decoded.calls = <<"deserialize_string">>
    /\ Serialized("HexAccountAddress") =>
         encoded = HexAccountAddress_serialize_as(value, OtherMode(ser))
    /\ Serialized("SuiStructTag") =>
         encoded = SuiStructTag_serialize_as(value, OtherMode(ser))
    /\ Serialized("SuiTypeTag") =>
         encoded = SuiTypeTag_serialize_as(value, OtherMode(ser))
    /\ Deserialized("HexAccountAddress") =>
         decoded = HexAccountAddress_deserialize_as(Deserializer(OtherMode(ser), wire))
    /\ Deserialized("SuiStructTag") =>
         decoded = SuiStructTag_deserialize_as(Deserializer(OtherMode(ser), wire))
    /\ Deserialized("SuiTypeTag") =>
         decoded = SuiTypeTag_deserialize_as(Deserializer(OtherMode(ser), wire))

\* an address with a non-zero byte round-tripped as text under a binary format
C9_Witness ==
    /\ RoundTripped("HexAccountAddress")
    /\ ~ser.human_readable
    /\ value.bytes[LENGTH] = 171
    /\ wire.kind = "str" /\ StartsWith(wire.str, <<"0", "x">>)
    /\ decoded.ok /\ decoded.val = value

----
\* C10: for every u64 n and either mode, the SequenceNumber and AsProtocolVersion
\* adapters' serialize_as writes the decimal string of n, and their
\* deserialize_as (which reads through BigInt<u64>) on that output in the same
\* mode returns the domain value wrapping n.
C10_WrappersAgree ==
    \A name \in {"SequenceNumber", "AsProtocolVersion"} :
        /\ (Serialized(name) /\ encoded.ok) =>
              /\ encoded.item.kind = "str"
              /\ IsDecimalOf(encoded.item.str, value.n)
        /\ Serialized(name) => encoded.ok = (ser.rejects # "str")
        /\ RoundTripped(name) => decoded.ok /\ decoded.val = value

C10_Witness ==
    /\ RoundTripped("SequenceNumber")
    /\ ~ser.human_readable
    /\ value = SequenceNumber_from_u64(U64_MAX)
    /\ wire.kind = "str"
    /\ decoded.ok /\ decoded.val = value

=============================================================================
